---------------------------- MODULE Spec2Model ----------------------------
(***************************************************************************)
(* Request-orchestration layer of the X-ray analysis application           *)
(* (lib/gemini.ts): retryWithBackoff, analyzeXrayImage and blobToBase64,   *)
(* modelled as a state machine.  One behaviour is one call: either a call  *)
(* of retryWithBackoff with an explicit policy and an arbitrary operation, *)
(* or a call of analyzeXrayImage, which runs the retrier under the default *)
(* policy around the remote model call.                                    *)
(*                                                                         *)
(* JavaScript strings that the code inspects (error messages, data URLs)   *)
(* are TLA+ strings whose characters are given by Chars, so that           *)
(* String.includes and String.split are computed character by character.   *)
(***************************************************************************)
EXTENDS Integers, Sequences, FiniteSets, TLC

(***************************************************************************)
(* Bounds of the model and constants of the program.                       *)
(***************************************************************************)
\* most analyzeXrayImage calls the App starts in one behaviour
MaxCalls == 3
\* most images uploaded in one behaviour
MaxUploads == 2
\* largest explicit maxRetries a direct call of retryWithBackoff is given
MaxRetriesBound == 3
\* Math.random() is drawn as n / RandomSteps with n in 0 .. RandomSteps - 1
RandomSteps == 1000
\* default parameters of retryWithBackoff
DefaultMaxRetries == 5
DefaultInitialDelay == 2000
\* width of the jitter in milliseconds: Math.random() * 1000
JitterMs == 1000

(***************************************************************************)
(* Characters of the strings the code inspects.                            *)
(***************************************************************************)
Chars(s) ==
  CASE s = "503" ->
       << "5","0","3" >>
    [] s = "overloaded" ->
       << "o","v","e","r","l","o","a","d","e","d" >>
    [] s = "Unknown error" ->
       << "U","n","k","n","o","w","n"," ","e","r","r","o","r" >>
    [] s = "Maximum retries reached. The service is currently unavailable. Please try again later." ->
       << "M","a","x","i","m","u","m"," ","r","e","t","r","i","e","s"," ","r","e","a","c","h",
          "e","d","."," ","T","h","e"," ","s","e","r","v","i","c","e"," ","i","s"," ","c","u",
          "r","r","e","n","t","l","y"," ","u","n","a","v","a","i","l","a","b","l","e","."," ",
          "P","l","e","a","s","e"," ","t","r","y"," ","a","g","a","i","n"," ","l","a","t","e",
          "r","." >>
    [] s = "No response from Gemini API" ->
       << "N","o"," ","r","e","s","p","o","n","s","e"," ","f","r","o","m"," ","G","e","m","i",
          "n","i"," ","A","P","I" >>
    [] s = "Failed to fetch image" ->
       << "F","a","i","l","e","d"," ","t","o"," ","f","e","t","c","h"," ","i","m","a","g","e" >>
    [] s = "The AI service is temporarily unavailable. We tried multiple times but the service is experiencing high load. Please try again in a few minutes." ->
       << "T","h","e"," ","A","I"," ","s","e","r","v","i","c","e"," ","i","s"," ","t","e","m",
          "p","o","r","a","r","i","l","y"," ","u","n","a","v","a","i","l","a","b","l","e",".",
          " ","W","e"," ","t","r","i","e","d"," ","m","u","l","t","i","p","l","e"," ","t","i",
          "m","e","s"," ","b","u","t"," ","t","h","e"," ","s","e","r","v","i","c","e"," ","i",
          "s"," ","e","x","p","e","r","i","e","n","c","i","n","g"," ","h","i","g","h"," ","l",
          "o","a","d","."," ","P","l","e","a","s","e"," ","t","r","y"," ","a","g","a","i","n",
          " ","i","n"," ","a"," ","f","e","w"," ","m","i","n","u","t","e","s","." >>
    [] s = "An unexpected error occurred while analyzing the image" ->
       << "A","n"," ","u","n","e","x","p","e","c","t","e","d"," ","e","r","r","o","r"," ","o",
          "c","c","u","r","r","e","d"," ","w","h","i","l","e"," ","a","n","a","l","y","z","i",
          "n","g"," ","t","h","e"," ","i","m","a","g","e" >>
    [] s = "Failed to convert image to base64" ->
       << "F","a","i","l","e","d"," ","t","o"," ","c","o","n","v","e","r","t"," ","i","m","a",
          "g","e"," ","t","o"," ","b","a","s","e","6","4" >>
    [] s = "Failed to read image file" ->
       << "F","a","i","l","e","d"," ","t","o"," ","r","e","a","d"," ","i","m","a","g","e"," ",
          "f","i","l","e" >>
    [] s = "Failed to connect to the Gemini API" ->
       << "F","a","i","l","e","d"," ","t","o"," ","c","o","n","n","e","c","t"," ","t","o"," ",
          "t","h","e"," ","G","e","m","i","n","i"," ","A","P","I" >>
    [] s = "[503 Service Unavailable]" ->
       << "[","5","0","3"," ","S","e","r","v","i","c","e"," ","U","n","a","v","a","i","l","a",
          "b","l","e","]" >>
    [] s = "The model is overloaded." ->
       << "T","h","e"," ","m","o","d","e","l"," ","i","s"," ","o","v","e","r","l","o","a","d",
          "e","d","." >>
    [] s = "Overloaded (50 3)" ->
       << "O","v","e","r","l","o","a","d","e","d"," ","(","5","0"," ","3",")" >>
    [] s = "[400 Bad Request] API key not valid" ->
       << "[","4","0","0"," ","B","a","d"," ","R","e","q","u","e","s","t","]"," ","A","P","I",
          " ","k","e","y"," ","n","o","t"," ","v","a","l","i","d" >>
    [] s = "Failed to fetch" ->
       << "F","a","i","l","e","d"," ","t","o"," ","f","e","t","c","h" >>
    [] s = "data:image/png;base64,QUJD" ->
       << "d","a","t","a",":","i","m","a","g","e","/","p","n","g",";","b","a","s","e","6","4",
          ",","Q","U","J","D" >>
    [] s = "data:image/jpeg;base64,/9j/" ->
       << "d","a","t","a",":","i","m","a","g","e","/","j","p","e","g",";","b","a","s","e","6",
          "4",",","/","9","j","/" >>
    [] s = "data:image/png;base64," ->
       << "d","a","t","a",":","i","m","a","g","e","/","p","n","g",";","b","a","s","e","6","4",
          "," >>
    [] s = "Cannot read properties of undefined (reading 'text')" ->
       << "C","a","n","n","o","t"," ","r","e","a","d"," ","p","r","o","p","e","r","t","i","e",
          "s"," ","o","f"," ","u","n","d","e","f","i","n","e","d"," ","(","r","e","a","d","i",
          "n","g"," ","'","t","e","x","t","'",")" >>
    [] s = "" ->
       <<  >>
    [] s = "   " ->
       << " "," "," " >>
    [] s = "Is there a fracture?" ->
       << "I","s"," ","t","h","e","r","e"," ","a"," ","f","r","a","c","t","u","r","e","?" >>
    [] s = "image/" ->
       << "i","m","a","g","e","/" >>
    [] s = "image/png" ->
       << "i","m","a","g","e","/","p","n","g" >>
    [] s = "application/pdf" ->
       << "a","p","p","l","i","c","a","t","i","o","n","/","p","d","f" >>
    [] s = "data:" ->
       << "d","a","t","a",":" >>

(***************************************************************************)
(* String.prototype.includes and String.prototype.split(',').              *)
(***************************************************************************)
IncludesSeq(hay, needle) ==
  \E i \in 0 .. (Len(hay) - Len(needle)) :
     SubSeq(hay, i + 1, i + Len(needle)) = needle

Includes(s, needle) == IncludesSeq(Chars(s), Chars(needle))

RECURSIVE SplitSeq(_, _)
\* the segments of cs between occurrences of the separator character
SplitSeq(cs, sep) ==
  IF \A i \in 1 .. Len(cs) : cs[i] # sep
    THEN << cs >>
    ELSE LET k == CHOOSE i \in 1 .. Len(cs) :
                    cs[i] = sep /\ \A j \in 1 .. (i - 1) : cs[j] # sep
         IN  << SubSeq(cs, 1, k - 1) >> \o SplitSeq(SubSeq(cs, k + 1, Len(cs)), sep)

(***************************************************************************)
(* Values: thrown values and the outcome of an asynchronous call.          *)
(* site names the place that constructed an Error object: "remote" for an  *)
(* object thrown by a collaborator (SDK, fetch, Blob), otherwise the line  *)
(* of the `new Error` in gemini.ts.                                        *)
(***************************************************************************)
Err(message, site) == [isError |-> TRUE, message |-> message, site |-> site]
\* a thrown value that is not an instance of Error (here: a string)
NonError(v) == [isError |-> FALSE, message |-> v, site |-> "remote"]
Null == [isError |-> FALSE, message |-> "", site |-> "null"]

Return(v) == [kind |-> "return", value |-> v, error |-> Null]
Throw(e) == [kind |-> "throw", value |-> "", error |-> e]
Pending == [kind |-> "pending", value |-> "", error |-> Null]

\* texts the remote model answers with
Values == {"report A", "report B"}
\* messages of the errors the remote SDK throws
RemoteMessages ==
  {"[503 Service Unavailable]", "The model is overloaded.",
   "Overloaded (50 3)", "[400 Bad Request] API key not valid"}
RemoteThrown == {Err(m, "remote") : m \in RemoteMessages} \cup {NonError("503")}
\* what an arbitrary operation handed to retryWithBackoff can do
OperationOutcomes == {Return(v) : v \in Values} \cup {Throw(e) : e \in RemoteThrown}

(***************************************************************************)
(* retryWithBackoff: the pure parts.                                       *)
(***************************************************************************)
\* variants of the loop condition: one iteration short, one iteration long
LoopCondition_OneShort(r, maxR) == r < maxR - 1
LoopCondition_Inclusive(r, maxR) == r <= maxR

\* line 29: while (retries < maxRetries)
LoopCondition(r, maxR) == r < maxR

\* lines 35-36: error instanceof Error && (includes('503') || includes('overloaded'))
IsTransient(error) ==
  /\ error.isError
  /\ (Includes(error.message, "503") \/ Includes(error.message, "overloaded"))

\* line 33: lastError = error instanceof Error ? error : new Error('Unknown error')
LastErrorOf(error) == IF error.isError THEN error ELSE Err("Unknown error", "L33")

\* Math.random(): n / RandomSteps; the draws used are the two ends of the range
MathRandom == {0, RandomSteps - 1}

\* variant: the delay does not grow with the attempt
WaitTime_Flat(initDelay, r, n) == initDelay + (n * JitterMs) \div RandomSteps

\* variant: the exponent counts the attempt from 1
WaitTime_NextPower(initDelay, r, n) ==
  initDelay * (2 ^ (r + 1)) + (n * JitterMs) \div RandomSteps

\* line 37: initialDelay * Math.pow(2, retries) + Math.random() * 1000
WaitTime(initDelay, r, n) == initDelay * (2 ^ r) + (n * JitterMs) \div RandomSteps

\* variant: the counter is left as it is
NextRetries_Same(r) == r

\* line 40: retries++
NextRetries(r) == r + 1

\* variant: the last transient error is thrown
Exhausted_LastError(lastErr) == lastErr

\* line 48: throw new Error('Maximum retries reached. ...'); lastError is not used
Exhausted(lastErr) ==
  Err("Maximum retries reached. The service is currently unavailable. Please try again later.",
      "L48")

\* variant: the normalized lastError is thrown
Rethrown_LastError(error, lastErr) == lastErr

\* line 44: throw error
Rethrown(error, lastErr) == error

(***************************************************************************)
(* analyzeXrayImage and blobToBase64: the pure parts.                      *)
(***************************************************************************)
\* variant: the absence of an image alone selects the text-only mode
TextOnlyMode_NoImage(url, lang) == url = ""

\* variant: either condition selects the text-only mode
TextOnlyMode_Either(url, lang) == url = "" \/ lang # "english"

\* line 55: !imageUrl && language !== 'english'
TextOnlyMode(url, lang) == url = "" /\ lang # "english"

\* lines 57-61: a template literal is the sequence of its pieces
TextOnlyParts(p, lang) ==
  << [text |-> << "You are a medical professional. ", p,
                  " Provide the response in ", lang, " language." >>,
      mimeType |-> "", data |-> << >>, inline |-> FALSE] >>

\* variant: the two directives are exchanged
LanguagePrompt_Swapped(lang) ==
  IF lang = "hindi" THEN "Provide the analysis in Marathi language."
  ELSE IF lang = "marathi" THEN "Provide the analysis in Hindi language."
  ELSE ""

\* lines 82-88
LanguagePrompt(lang) ==
  IF lang = "hindi" THEN "Provide the analysis in Hindi language."
  ELSE IF lang = "marathi" THEN "Provide the analysis in Marathi language."
  ELSE ""

\* lines 91-101: instruction text, then the inline image
ImageParts(p, langPrompt, blob, b64) ==
  << [text |-> << "You are a medical professional analyzing an X-ray image. Please provide a detailed analysis based on the following prompt: ",
                  p, ". ", langPrompt >>,
      mimeType |-> "", data |-> << >>, inline |-> FALSE],
     [text |-> << >>, mimeType |-> blob.type, data |-> b64, inline |-> TRUE] >>

\* variant: the status of the response is not looked at
FetchRejected_Never(resp) == FALSE

\* line 75: if (!response.ok)
FetchRejected(resp) == ~ resp.ok

\* line 130: base64String.split(',')[1]; << >> stands for undefined and for ''
Base64WithoutPrefix(dataUrl) ==
  LET segs == SplitSeq(Chars(dataUrl), ",")
  IN  IF Len(segs) >= 2 THEN segs[2] ELSE << >>

\* lines 63-68 and 103-108: what the generateContent closure makes of the SDK's answer
NoResponseError(textOnly) ==
  Err("No response from Gemini API", IF textOnly THEN "L65" ELSE "L105")

\* variant: the response is used without the test of lines 64 and 104
GenerateContentOutcome_Unchecked(sdk, textOnly) ==
  IF sdk.kind = "throws" THEN Throw(sdk.error)
  ELSE IF sdk.kind = "no_response"
    THEN Throw(Err("Cannot read properties of undefined (reading 'text')", "remote"))
  ELSE Return(sdk.value)

GenerateContentOutcome(sdk, textOnly) ==
  IF sdk.kind = "throws" THEN Throw(sdk.error)
  ELSE IF sdk.kind = "no_response" THEN Throw(NoResponseError(textOnly))
  ELSE Return(sdk.value)

\* variant: every caught value gets the generic message
Normalize_Generic(error) ==
  Err("An unexpected error occurred while analyzing the image", "L121")

\* lines 112-122: the catch of analyzeXrayImage
Normalize(error) ==
  IF error.isError
    THEN IF Includes(error.message, "503") \/ Includes(error.message, "overloaded")
           THEN Err("The AI service is temporarily unavailable. We tried multiple times but the service is experiencing high load. Please try again in a few minutes.",
                    "L116")
           ELSE Err(error.message, "L118")
    ELSE Err("An unexpected error occurred while analyzing the image", "L121")

(***************************************************************************)
(* checkApiConnection: the pure parts.                                     *)
(***************************************************************************)
\* line 11: the request of the probe
ProbeParts ==
  << [text |-> << "Hello, are you working?" >>,
      mimeType |-> "", data |-> << >>, inline |-> FALSE] >>

\* line 14: return !!response
ProbeReturn(b) == [kind |-> "return", value |-> b, error |-> Null]
ProbeThrow(e) == [kind |-> "throw", value |-> FALSE, error |-> e]
ProbePending == [kind |-> "pending", value |-> FALSE, error |-> Null]

\* variant: the caught error is rethrown
ProbeFailure_Raw(error) == error

\* lines 15-17: throw new Error('Failed to connect to the Gemini API')
ProbeFailure(error) == Err("Failed to connect to the Gemini API", "L17")

(***************************************************************************)
(* Inputs of analyzeXrayImage and answers of its collaborators.            *)
(***************************************************************************)
ImageUrls == {"", "blob:xray"}
Prompts == {"Is there a fracture?"}
Languages == {"english", "hindi", "marathi", "french"}

\* a fetched resource: its Content-Type and what FileReader.readAsDataURL
\* yields for its body
Resources ==
  {[contentType |-> "image/png", dataUrl |-> "data:image/png;base64,QUJD"],
   [contentType |-> "image/jpeg", dataUrl |-> "data:image/jpeg;base64,/9j/"],
   [contentType |-> "image/png", dataUrl |-> "data:image/png;base64,"],
   [contentType |-> "", dataUrl |-> "data:"]}

\* a fetch Response: ok is true exactly for a 2xx status
Responses ==
  {[ok |-> TRUE, status |-> 200, contentType |-> r.contentType, dataUrl |-> r.dataUrl] :
      r \in Resources}
    \cup {[ok |-> FALSE, status |-> s, contentType |-> "text/html", dataUrl |-> "data:"] :
            s \in {404, 503}}
NoResponse == [ok |-> FALSE, status |-> 0, contentType |-> "", dataUrl |-> ""]

\* line 79: response.blob() carries the Content-Type of the response as its type
BlobOf(resp) == [type |-> resp.contentType, dataUrl |-> resp.dataUrl]
NoBlob == [type |-> "", dataUrl |-> ""]

\* fetch and Response.blob reject with a TypeError of the browser
NetworkError == Err("Failed to fetch", "remote")

\* answers of model.generateContent followed by result.response and text()
SdkOutcomes ==
  {[kind |-> "throws", error |-> e, value |-> ""] : e \in RemoteThrown}
    \cup {[kind |-> "no_response", error |-> Null, value |-> ""]}
    \cup {[kind |-> "text", error |-> Null, value |-> v] : v \in Values}

(***************************************************************************)
(* State.                                                                  *)
(***************************************************************************)
VARIABLES
  entry,          \* the function called: "retryWithBackoff", "analyzeXrayImage"
                  \* or "checkApiConnection"
  imageUrl, prompt, language,       \* arguments of analyzeXrayImage
  maxRetries, initialDelay,         \* arguments of retryWithBackoff
  apc,            \* position of analyzeXrayImage
  response, imageBlob, base64Image, languagePrompt,   \* its locals
  parts,          \* the request captured by the generateContent closure
  result,         \* what analyzeXrayImage returned or threw
  rpc,            \* position of retryWithBackoff
  retries, lastError,               \* its locals
  rResult,        \* what retryWithBackoff returned or threw
  calls,          \* number of invocations of the operation
  attempts,       \* outcomes of the completed invocations, in order
  delays,         \* the waitTime of every delay(waitTime) started, in order
  events,         \* fetches, encodings and model invocations, in order
  sent,           \* the requests handed to model.generateContent, in order
  answers,        \* what the SDK answered to each request, in order
  fetched,        \* the URLs handed to fetch, in order
  caught,         \* the value that reached the catch of the function called
  ppc,            \* position of checkApiConnection
  pResult,        \* what checkApiConnection returned or threw
  \* the state of the App component (App.tsx, lines 9-17); in the behaviours of
  \* the App, imageUrl, prompt and language above are its state of that name
  analysis, isAnalyzing, error, apiStatus, originalAnalysis, isTranslating,
  inflight,       \* the asynchronous calls of the App that have not settled
  started,        \* number of analyzeXrayImage calls the App has started
  uploads,        \* number of object URLs created
  last            \* the handler, or handler continuation, that ran last

inputs == << entry, imageUrl, prompt, language, maxRetries, initialDelay >>
analyzeLocals == << response, imageBlob, base64Image, languagePrompt, parts >>
retryLocals == << retries, lastError >>
observed == << calls, attempts, delays, events, sent >>
probeState == << ppc, pResult >>
appState == << analysis, isAnalyzing, error, apiStatus, originalAnalysis, isTranslating >>
app == << appState, inflight, started, uploads, last >>
vars == << inputs, apc, analyzeLocals, result, rpc, retryLocals, rResult, observed,
           answers, fetched, caught, probeState, app >>

\* lines 9-17: the initial values of useState
InitApp ==
  /\ analysis = "" /\ isAnalyzing = FALSE /\ error = ""
  /\ apiStatus = "checking" /\ originalAnalysis = "" /\ isTranslating = FALSE
  /\ started = 0 /\ uploads = 0 /\ last = "render"

InitCommon ==
  /\ InitApp /\ inflight = { }
  /\ response = NoResponse /\ imageBlob = NoBlob /\ base64Image = << >>
  /\ languagePrompt = "" /\ parts = << >>
  /\ result = Pending /\ rResult = Pending
  /\ retries = 0 /\ lastError = Null
  /\ calls = 0 /\ attempts = << >> /\ delays = << >>
  /\ events = << >> /\ sent = << >>
  /\ answers = << >> /\ fetched = << >> /\ caught = Null
  /\ pResult = ProbePending

\* a call retryWithBackoff(operation, maxRetries, initialDelay)
InitRetry ==
  /\ entry = "retryWithBackoff"
  /\ imageUrl = "" /\ prompt = "" /\ language = "english"
  /\ maxRetries \in 1 .. MaxRetriesBound
  /\ initialDelay \in {0, 100, DefaultInitialDelay}
  /\ apc = "idle" /\ rpc = "while" /\ ppc = "idle"
  /\ InitCommon

\* a call analyzeXrayImage(imageUrl, prompt, language)
InitAnalyze ==
  /\ entry = "analyzeXrayImage"
  /\ imageUrl \in ImageUrls /\ prompt \in Prompts /\ language \in Languages
  /\ maxRetries = DefaultMaxRetries /\ initialDelay = DefaultInitialDelay
  /\ apc = "start" /\ rpc = "idle" /\ ppc = "idle"
  /\ InitCommon

\* a call checkApiConnection()
InitProbe ==
  /\ entry = "checkApiConnection"
  /\ imageUrl = "" /\ prompt = "" /\ language = "english"
  /\ maxRetries = DefaultMaxRetries /\ initialDelay = DefaultInitialDelay
  /\ apc = "idle" /\ rpc = "idle" /\ ppc = "start"
  /\ InitCommon

Init == InitRetry \/ InitAnalyze \/ InitProbe

(***************************************************************************)
(* retryWithBackoff (lines 21-49).                                         *)
(***************************************************************************)
\* retryWithBackoff settles with outcome o; analyzeXrayImage, when it is the
\* caller, returns the value (lines 71, 111) or normalizes the error (112-122)
RetrierSettles(o) ==
  /\ rpc' = (IF o.kind = "return" THEN "returned" ELSE "threw")
  /\ rResult' = o
  /\ IF entry = "analyzeXrayImage"
       THEN /\ apc' = (IF o.kind = "return" THEN "returned" ELSE "threw")
            /\ result' = (IF o.kind = "return" THEN o ELSE Throw(Normalize(o.error)))
            /\ caught' = (IF o.kind = "return" THEN caught ELSE o.error)
       ELSE UNCHANGED << apc, result, caught >>

\* lines 29-31: the loop condition holds and the operation is invoked
RetryAttempt ==
  /\ rpc = "while"
  /\ LoopCondition(retries, maxRetries)
  /\ rpc' = "operation"
  /\ calls' = calls + 1
  /\ IF entry = "analyzeXrayImage"
       THEN /\ sent' = Append(sent, parts)
            /\ events' = Append(events, "model")
       ELSE UNCHANGED << sent, events >>
  /\ UNCHANGED << app, inputs, apc, analyzeLocals, result, retryLocals, rResult,
                  attempts, delays, answers, fetched, caught, probeState >>

\* lines 29, 48: the loop condition fails
RetryExhausted ==
  /\ rpc = "while"
  /\ ~ LoopCondition(retries, maxRetries)
  /\ RetrierSettles(Throw(Exhausted(lastError)))
  /\ UNCHANGED << app, inputs, analyzeLocals, retryLocals, observed, answers, fetched,
                  probeState >>

\* lines 31-45: the awaited operation settles with outcome o
OperationSettles(o) ==
  /\ rpc = "operation"
  /\ attempts' = Append(attempts, o)
  /\ \/ /\ o.kind = "return"
        /\ RetrierSettles(o)
        /\ UNCHANGED << retryLocals, delays >>
     \/ /\ o.kind = "throw"
        /\ IsTransient(o.error)
        /\ \E n \in MathRandom :
             delays' = Append(delays, WaitTime(initialDelay, retries, n))
        /\ lastError' = LastErrorOf(o.error)
        /\ rpc' = "delay"
        /\ UNCHANGED << retries, rResult, apc, result, caught >>
     \/ /\ o.kind = "throw"
        /\ ~ IsTransient(o.error)
        /\ lastError' = LastErrorOf(o.error)
        /\ RetrierSettles(Throw(Rethrown(o.error, LastErrorOf(o.error))))
        /\ UNCHANGED << retries, delays >>
  /\ UNCHANGED << app, inputs, analyzeLocals, calls, events, sent, fetched, probeState >>

\* the operation of a direct call: any outcome
Operation ==
  /\ entry = "retryWithBackoff"
  /\ \E o \in OperationOutcomes : OperationSettles(o)
  /\ UNCHANGED answers

\* the operation of analyzeXrayImage: the generateContent closure
GenerateContent ==
  /\ entry = "analyzeXrayImage"
  /\ \E sdk \in SdkOutcomes :
       /\ OperationSettles(GenerateContentOutcome(sdk, TextOnlyMode(imageUrl, language)))
       /\ answers' = Append(answers, sdk)

\* lines 39-41: the timer fires; retries++; continue
DelayElapsed ==
  /\ rpc = "delay"
  /\ retries' = NextRetries(retries)
  /\ rpc' = "while"
  /\ UNCHANGED << app, inputs, apc, analyzeLocals, result, lastError, rResult, observed,
                  answers, fetched, caught, probeState >>

(***************************************************************************)
(* analyzeXrayImage (lines 51-123) and blobToBase64 (lines 125-140).       *)
(***************************************************************************)
\* an error thrown in the try block outside the retrier reaches the catch
AnalyzeFails(e) ==
  /\ apc' = "threw"
  /\ result' = Throw(Normalize(e))
  /\ caught' = e

\* retryWithBackoff(generateContent): default policy
StartRetrier ==
  /\ apc' = "retry"
  /\ rpc' = "while"
  /\ retries' = 0
  /\ lastError' = Null

\* lines 55-71: text-only mode
AnalyzeTextOnly ==
  /\ apc = "start"
  /\ TextOnlyMode(imageUrl, language)
  /\ parts' = TextOnlyParts(prompt, language)
  /\ StartRetrier
  /\ UNCHANGED << app, inputs, response, imageBlob, base64Image, languagePrompt,
                  result, rResult, observed, answers, fetched, caught, probeState >>

\* line 74: fetch(imageUrl) is issued
AnalyzeFetch ==
  /\ apc = "start"
  /\ ~ TextOnlyMode(imageUrl, language)
  /\ apc' = "fetch"
  /\ events' = Append(events, "fetch")
  /\ fetched' = Append(fetched, imageUrl)
  /\ UNCHANGED << app, inputs, analyzeLocals, result, rpc, retryLocals, rResult,
                  calls, attempts, delays, sent, answers, caught, probeState >>

\* lines 74-79: the fetch settles; response.blob() is issued
FetchSettles ==
  /\ apc = "fetch"
  /\ \/ /\ AnalyzeFails(NetworkError)
        /\ UNCHANGED << analyzeLocals, events >>
     \/ \E resp \in Responses :
          /\ response' = resp
          /\ IF FetchRejected(resp)
               THEN /\ AnalyzeFails(Err("Failed to fetch image", "L76"))
                    /\ UNCHANGED events
               ELSE /\ apc' = "blob"
                    /\ events' = Append(events, "fetch_ok")
                    /\ UNCHANGED << result, caught >>
          /\ UNCHANGED << imageBlob, base64Image, languagePrompt, parts >>
  /\ UNCHANGED << app, inputs, rpc, retryLocals, rResult, calls, attempts, delays, sent,
                  answers, fetched, probeState >>

\* lines 79-80: the body is read; blobToBase64 starts the FileReader
BlobSettles ==
  /\ apc = "blob"
  /\ \/ /\ AnalyzeFails(NetworkError)
        /\ UNCHANGED << analyzeLocals, events >>
     \/ /\ imageBlob' = BlobOf(response)
        /\ apc' = "encode"
        /\ events' = Append(events, "encode")
        /\ UNCHANGED << response, base64Image, languagePrompt, parts, result, caught >>
  /\ UNCHANGED << app, inputs, rpc, retryLocals, rResult, calls, attempts, delays, sent,
                  answers, fetched, probeState >>

\* lines 128-137, 80-111: the FileReader finishes
EncodeSettles ==
  /\ apc = "encode"
  /\ \/ \* reader.onerror
        /\ AnalyzeFails(Err("Failed to read image file", "L137"))
        /\ UNCHANGED << analyzeLocals, events, rpc, retryLocals >>
     \/ \* reader.onloadend without a payload
        /\ Base64WithoutPrefix(imageBlob.dataUrl) = << >>
        /\ AnalyzeFails(Err("Failed to convert image to base64", "L132"))
        /\ UNCHANGED << analyzeLocals, events, rpc, retryLocals >>
     \/ \* reader.onloadend with a payload
        /\ Base64WithoutPrefix(imageBlob.dataUrl) # << >>
        /\ base64Image' = Base64WithoutPrefix(imageBlob.dataUrl)
        /\ languagePrompt' = LanguagePrompt(language)
        /\ parts' = ImageParts(prompt, LanguagePrompt(language), imageBlob,
                               Base64WithoutPrefix(imageBlob.dataUrl))
        /\ events' = Append(events, "encode_ok")
        /\ StartRetrier
        /\ UNCHANGED << response, imageBlob, result, caught >>
  /\ UNCHANGED << app, inputs, rResult, calls, attempts, delays, sent, answers, fetched,
                  probeState >>

(***************************************************************************)
(* checkApiConnection (lines 7-19).                                        *)
(***************************************************************************)
\* line 11: model.generateContent('Hello, are you working?') is issued
ProbeRequest ==
  /\ ppc = "start"
  /\ ppc' = "request"
  /\ sent' = Append(sent, ProbeParts)
  /\ events' = Append(events, "model")
  /\ UNCHANGED << app, inputs, apc, analyzeLocals, result, rpc, retryLocals, rResult,
                  calls, attempts, delays, answers, fetched, caught, pResult >>

\* lines 11-18: the request settles
ProbeSettles ==
  /\ ppc = "request"
  /\ \E sdk \in SdkOutcomes :
       /\ answers' = Append(answers, sdk)
       /\ IF sdk.kind = "throws"
            THEN /\ ppc' = "threw"
                 /\ caught' = sdk.error
                 /\ pResult' = ProbeThrow(ProbeFailure(sdk.error))
            ELSE /\ ppc' = "returned"
                 /\ pResult' = ProbeReturn(sdk.kind # "no_response")
                 /\ UNCHANGED caught
  /\ UNCHANGED << app, inputs, apc, analyzeLocals, result, rpc, retryLocals, rResult,
                  observed, fetched >>

Next ==
  \/ ProbeRequest
  \/ ProbeSettles
  \/ RetryAttempt
  \/ RetryExhausted
  \/ Operation
  \/ GenerateContent
  \/ DelayElapsed
  \/ AnalyzeTextOnly
  \/ AnalyzeFetch
  \/ FetchSettles
  \/ BlobSettles
  \/ EncodeSettles

Spec == Init /\ [][Next]_vars

\* every pending await (operation, timer, fetch, read) eventually settles
FairSpec == Init /\ [][Next]_vars /\ WF_vars(Next)

(***************************************************************************)
(* The App component (App.tsx).  A handler runs to its first await in one   *)
(* step; the continuation after the await is a step of its own.  The        *)
(* handlers read the state of the latest render.  What analyzeXrayImage     *)
(* and checkApiConnection answer is an input of the App.                    *)
(***************************************************************************)
Greeting ==
  "Hello! I am your X-ray Analysis AI. Upload an X-ray image, and I can help analyze it for medical conditions or abnormalities."
ImageSeen == "I can see the X-ray image. What would you like me to analyze?"
Analyzing == "Analyzing the X-ray image..."
AnalysisFailed ==
  "I encountered an error while analyzing the X-ray image. Please try again."

\* what the user types into the prompt box, and the types of the files chosen
PromptTexts == {"", "   ", "Is there a fracture?"}
FileTypes == {"image/png", "application/pdf"}

\* what a call of analyzeXrayImage settles with: a text of the model, or one of
\* the errors its catch throws
AnalyzeOutcomes ==
  {Return(v) : v \in Values}
    \cup {Throw(Normalize(e)) : e \in {Exhausted(Null), Err("Failed to fetch image", "L76")}}
TranslateOutcomes ==
  {Return("translated report")}
    \cup {Throw(Normalize(e)) : e \in {Exhausted(Null)}}

\* line 76: !prompt.trim()
IsBlank(s) == \A i \in 1 .. Len(Chars(s)) : Chars(s)[i] = " "

\* line 47: file.type.startsWith('image/')
StartsWith(s, prefix) ==
  /\ Len(Chars(s)) >= Len(Chars(prefix))
  /\ SubSeq(Chars(s), 1, Len(Chars(prefix))) = Chars(prefix)

\* line 51: URL.createObjectURL(file): a fresh URL for every file
ObjectUrl(n) == "blob:" \o ToString(n)

\* a call in flight: who awaits it and the arguments it was given
Call(id, handler, url, promptPieces, lang) ==
  [id |-> id, handler |-> handler, imageUrl |-> url, prompt |-> promptPieces,
   language |-> lang]

\* line 25: checkApiConnection()
ProbeCall == Call(0, "checkConnection", "", << "Hello, are you working?" >>, "")

\* line 87: analyzeXrayImage(imageUrl, prompt)
AnalyzeCall(id) == Call(id, "handleAnalyze", imageUrl, << prompt >>, "english")

\* line 113: analyzeXrayImage(imageUrl, `Translate ... ${originalAnalysis}`, targetLanguage)
TranslateCall(id, target) ==
  Call(id, "translateAnalysis", imageUrl,
       << "Translate the following medical analysis to ", target, ": ",
          originalAnalysis >>,
       target)

\* line 239: the prompt box accepts input and key presses
TextareaEnabled == imageUrl # "" /\ apiStatus = "connected"

\* line 245: the Analyze button can be clicked
AnalyzeButtonEnabled ==
  ~ isAnalyzing /\ imageUrl # "" /\ ~ IsBlank(prompt) /\ apiStatus = "connected"

\* lines 281, 285, 295, 305: a language button is rendered and can be clicked
LanguageButtonEnabled(target) ==
  /\ analysis # "" /\ analysis # Analyzing
  /\ ~ isTranslating /\ language # target

service == << entry, maxRetries, initialDelay, apc, analyzeLocals, result, rpc,
             retryLocals, rResult, observed, answers, fetched, caught, probeState >>

\* the component is mounted and the effect of lines 21-36 has issued the probe
InitMounted ==
  /\ entry = "App"
  /\ imageUrl = "" /\ prompt = "" /\ language = "english"
  /\ InitApp /\ inflight = {ProbeCall}
  /\ maxRetries = DefaultMaxRetries /\ initialDelay = DefaultInitialDelay
  /\ apc = "idle" /\ rpc = "idle" /\ ppc = "idle"
  /\ response = NoResponse /\ imageBlob = NoBlob /\ base64Image = << >>
  /\ languagePrompt = "" /\ parts = << >>
  /\ result = Pending /\ rResult = Pending
  /\ retries = 0 /\ lastError = Null
  /\ calls = 0 /\ attempts = << >> /\ delays = << >>
  /\ events = << >> /\ sent = << >>
  /\ answers = << >> /\ fetched = << >> /\ caught = Null
  /\ pResult = ProbePending

\* lines 25-28: the probe resolved (its boolean is not looked at)
CheckConnectionResolves ==
  /\ ProbeCall \in inflight
  /\ inflight' = inflight \ {ProbeCall}
  /\ apiStatus' = "connected"
  /\ analysis' = Greeting
  /\ originalAnalysis' = Greeting
  /\ last' = "checkConnection_resolved"
  /\ UNCHANGED << service, imageUrl, prompt, language, isAnalyzing, error,
                  isTranslating, started, uploads >>

\* lines 29-32: the probe rejected
CheckConnectionRejects ==
  /\ ProbeCall \in inflight
  /\ inflight' = inflight \ {ProbeCall}
  /\ apiStatus' = "error"
  /\ error' = "Failed to connect to the analysis service. Please try again later."
  /\ last' = "checkConnection_rejected"
  /\ UNCHANGED << service, imageUrl, prompt, language, analysis, isAnalyzing,
                  originalAnalysis, isTranslating, started, uploads >>

\* lines 44-58: a file is chosen
HandleImageUpload ==
  /\ \E type \in FileTypes :
       IF ~ StartsWith(type, "image/")
         THEN /\ error' = "Please upload a valid image file"
              /\ UNCHANGED << imageUrl, analysis, originalAnalysis, language, uploads >>
         ELSE /\ uploads < MaxUploads
              /\ uploads' = uploads + 1
              /\ imageUrl' = ObjectUrl(uploads + 1)
              /\ error' = ""
              /\ analysis' = ImageSeen
              /\ originalAnalysis' = ImageSeen
              /\ language' = "english"
  /\ last' = "handleImageUpload"
  /\ UNCHANGED << service, prompt, isAnalyzing, apiStatus, isTranslating,
                  inflight, started >>

\* lines 60-69, 198-207: the remove button of the image
HandleClearImage ==
  /\ imageUrl # ""
  /\ imageUrl' = ""
  /\ analysis' = ""
  /\ originalAnalysis' = ""
  /\ error' = ""
  /\ language' = "english"
  /\ last' = "handleClearImage"
  /\ UNCHANGED << service, prompt, isAnalyzing, apiStatus, isTranslating,
                  inflight, started, uploads >>

\* line 234: the user edits the prompt
SetPrompt ==
  /\ TextareaEnabled
  /\ \E text \in PromptTexts : prompt' = text
  /\ last' = "setPrompt"
  /\ UNCHANGED << service, imageUrl, language, appState, inflight, started, uploads >>

\* lines 71-87: handleAnalyze up to its await
HandleAnalyze ==
  /\ IF imageUrl = ""
       THEN /\ error' = "Please upload an X-ray image first"
            /\ UNCHANGED << isAnalyzing, analysis, language, inflight, started >>
       ELSE IF IsBlank(prompt)
         THEN /\ error' = "Please enter a prompt"
              /\ UNCHANGED << isAnalyzing, analysis, language, inflight, started >>
         ELSE /\ started < MaxCalls
              /\ isAnalyzing' = TRUE
              /\ error' = ""
              /\ analysis' = Analyzing
              /\ language' = "english"
              /\ started' = started + 1
              /\ inflight' = inflight \cup {AnalyzeCall(started + 1)}
  /\ last' = "handleAnalyze"
  /\ UNCHANGED << service, imageUrl, prompt, apiStatus, originalAnalysis,
                  isTranslating, uploads >>

\* line 244: a click on the Analyze button
ClickAnalyze == AnalyzeButtonEnabled /\ HandleAnalyze

\* lines 125-130, 235: the Enter key, without Shift, in the prompt box
PressEnter == TextareaEnabled /\ HandleAnalyze

\* lines 87-90, 96-98: the call of handleAnalyze resolved
AnalyzeResolves ==
  /\ \E c \in inflight, o \in AnalyzeOutcomes :
       /\ c.handler = "handleAnalyze"
       /\ o.kind = "return"
       /\ inflight' = inflight \ {c}
       /\ analysis' = o.value
       /\ originalAnalysis' = o.value
  /\ prompt' = ""
  /\ isAnalyzing' = FALSE
  /\ last' = "handleAnalyze_resolved"
  /\ UNCHANGED << service, imageUrl, language, error, apiStatus, isTranslating,
                  started, uploads >>

\* lines 91-98: the call of handleAnalyze rejected
AnalyzeRejects ==
  /\ \E c \in inflight, o \in AnalyzeOutcomes :
       /\ c.handler = "handleAnalyze"
       /\ o.kind = "throw"
       /\ inflight' = inflight \ {c}
       /\ error' = o.error.message
  /\ analysis' = AnalysisFailed
  /\ originalAnalysis' = AnalysisFailed
  /\ isAnalyzing' = FALSE
  /\ last' = "handleAnalyze_rejected"
  /\ UNCHANGED << service, imageUrl, prompt, language, apiStatus, isTranslating,
                  started, uploads >>

\* lines 102-104: translateAnalysis returns at once
TranslateIgnored ==
  /\ \E target \in {"english", "hindi", "marathi"} :
       /\ LanguageButtonEnabled(target)
       /\ target = language \/ originalAnalysis = ""
  /\ last' = "translateAnalysis_ignored"
  /\ UNCHANGED << service, imageUrl, prompt, language, appState, inflight,
                  started, uploads >>

\* lines 106-111, 120-122: back to English, without a call
TranslateToEnglish ==
  /\ LanguageButtonEnabled("english")
  /\ ~ ("english" = language \/ originalAnalysis = "")
  /\ analysis' = originalAnalysis
  /\ language' = "english"
  /\ isTranslating' = FALSE
  /\ last' = "translateAnalysis_english"
  /\ UNCHANGED << service, imageUrl, prompt, isAnalyzing, error, apiStatus,
                  originalAnalysis, inflight, started, uploads >>

\* lines 106-113: translateAnalysis up to its await
TranslateStarts ==
  /\ \E target \in {"hindi", "marathi"} :
       /\ LanguageButtonEnabled(target)
       /\ ~ (target = language \/ originalAnalysis = "")
       /\ inflight' = inflight \cup {TranslateCall(started + 1, target)}
  /\ started < MaxCalls
  /\ started' = started + 1
  /\ isTranslating' = TRUE
  /\ last' = "translateAnalysis"
  /\ UNCHANGED << service, imageUrl, prompt, language, analysis, isAnalyzing,
                  error, apiStatus, originalAnalysis, uploads >>

\* lines 113-115, 120-122: the call of translateAnalysis resolved
TranslateResolves ==
  /\ \E c \in inflight, o \in TranslateOutcomes :
       /\ c.handler = "translateAnalysis"
       /\ o.kind = "return"
       /\ inflight' = inflight \ {c}
       /\ analysis' = o.value
       /\ language' = c.language
  /\ isTranslating' = FALSE
  /\ last' = "translateAnalysis_resolved"
  /\ UNCHANGED << service, imageUrl, prompt, isAnalyzing, error, apiStatus,
                  originalAnalysis, started, uploads >>

\* variant: the catch of translateAnalysis replaces the text, as that of
\* handleAnalyze does
TranslateRejects_LikeAnalyze ==
  /\ \E c \in inflight, o \in TranslateOutcomes :
       /\ c.handler = "translateAnalysis"
       /\ o.kind = "throw"
       /\ inflight' = inflight \ {c}
       /\ error' = o.error.message
  /\ analysis' = AnalysisFailed
  /\ isTranslating' = FALSE
  /\ last' = "translateAnalysis_rejected"
  /\ UNCHANGED << service, imageUrl, prompt, language, isAnalyzing,
                  apiStatus, originalAnalysis, started, uploads >>

\* lines 117-122: the call of translateAnalysis rejected
TranslateRejects ==
  /\ \E c \in inflight, o \in TranslateOutcomes :
       /\ c.handler = "translateAnalysis"
       /\ o.kind = "throw"
       /\ inflight' = inflight \ {c}
       /\ error' = o.error.message
  /\ isTranslating' = FALSE
  /\ last' = "translateAnalysis_rejected"
  /\ UNCHANGED << service, imageUrl, prompt, language, analysis, isAnalyzing,
                  apiStatus, originalAnalysis, started, uploads >>

\* the handlers of the user's events and their continuations
UserNext ==
  \/ HandleImageUpload
  \/ HandleClearImage
  \/ SetPrompt
  \/ ClickAnalyze
  \/ PressEnter
  \/ AnalyzeResolves
  \/ AnalyzeRejects
  \/ TranslateIgnored
  \/ TranslateToEnglish
  \/ TranslateStarts
  \/ TranslateResolves
  \/ TranslateRejects

AppNext ==
  \/ CheckConnectionResolves
  \/ CheckConnectionRejects
  \/ UserNext

AppSpec == InitMounted /\ [][AppNext]_vars

\* the App once the probe has resolved, before any event of the user
InitConnected ==
  /\ entry = "App"
  /\ imageUrl = "" /\ prompt = "" /\ language = "english"
  /\ analysis = Greeting /\ originalAnalysis = Greeting
  /\ apiStatus = "connected" /\ error = ""
  /\ isAnalyzing = FALSE /\ isTranslating = FALSE
  /\ inflight = { } /\ started = 0 /\ uploads = 0
  /\ last = "checkConnection_resolved"
  /\ maxRetries = DefaultMaxRetries /\ initialDelay = DefaultInitialDelay
  /\ apc = "idle" /\ rpc = "idle" /\ ppc = "idle"
  /\ response = NoResponse /\ imageBlob = NoBlob /\ base64Image = << >>
  /\ languagePrompt = "" /\ parts = << >>
  /\ result = Pending /\ rResult = Pending
  /\ retries = 0 /\ lastError = Null
  /\ calls = 0 /\ attempts = << >> /\ delays = << >>
  /\ events = << >> /\ sent = << >>
  /\ answers = << >> /\ fetched = << >> /\ caught = Null
  /\ pResult = ProbePending

ConnectedSpec == InitConnected /\ [][UserNext]_vars

(***************************************************************************)
(* Properties.  The classification of a failure is restated here from the  *)
(* specification's data model: Transient is an Error whose message         *)
(* contains '503' or 'overloaded'; everything else thrown is Permanent.    *)
(***************************************************************************)
Succeeded(o) == o.kind = "return"
FailedTransient(o) ==
  /\ o.kind = "throw"
  /\ o.error.isError
  /\ (Includes(o.error.message, "503") \/ Includes(o.error.message, "overloaded"))
FailedPermanent(o) == o.kind = "throw" /\ ~ FailedTransient(o)
AllTransient(k) == Len(attempts) >= k /\ \A i \in 1 .. k : FailedTransient(attempts[i])
Settled == rpc \in {"returned", "threw"}

\* C1 (retry-then-succeed): after k < maxRetries transient failures in a row
\* the retrier is still running, and when the (k+1)-th invocation succeeds the
\* retrier returns exactly that value, having invoked the operation exactly
\* k+1 times, and invokes nothing afterwards.
C1_RetryThenSucceed ==
  \A k \in 0 .. (maxRetries - 1) :
    AllTransient(k) =>
      /\ Len(attempts) = k => ~ Settled /\ rResult = Pending
      /\ (Len(attempts) > k /\ Succeeded(attempts[k + 1])) =>
           /\ rpc = "returned"
           /\ rResult = Return(attempts[k + 1].value)
           /\ calls = k + 1
           /\ Len(attempts) = k + 1

C1_Witness ==
  /\ entry = "retryWithBackoff" /\ maxRetries = 3
  /\ AllTransient(2) /\ Len(attempts) = 3 /\ Succeeded(attempts[3])
  /\ rpc = "returned" /\ rResult.value = "report B"

\* C2 (exhaustion): when maxRetries invocations in a row fail with a Transient
\* error, no further invocation is made and the retrier never returns; once it
\* settles it throws the 'Maximum retries reached' error constructed at line 48,
\* not one of the transient errors.
C2_Exhaustion ==
  AllTransient(maxRetries) =>
    /\ calls = maxRetries /\ Len(attempts) = maxRetries
    /\ rpc \in {"delay", "while", "threw"}
    /\ rpc = "threw" =>
         /\ rResult.kind = "throw"
         /\ rResult.error =
              Err("Maximum retries reached. The service is currently unavailable. Please try again later.",
                  "L48")
         /\ \A i \in 1 .. Len(attempts) : rResult.error # attempts[i].error

C2_Witness ==
  /\ entry = "retryWithBackoff" /\ maxRetries = 3
  /\ AllTransient(3) /\ rpc = "threw"

\* C3 (permanent failure): a Permanent failure of the operation is the last
\* invocation; the retrier throws the very value the operation threw, with no
\* delay after it; when the first invocation fails permanently, exactly one
\* attempt and no delay were made.
C3_PermanentPropagates ==
  \A j \in 1 .. Len(attempts) :
    FailedPermanent(attempts[j]) =>
      /\ j = Len(attempts) /\ calls = j
      /\ Len(delays) = j - 1
      /\ rpc = "threw"
      /\ rResult = Throw(attempts[j].error)

C3_Witness ==
  /\ entry = "retryWithBackoff"
  /\ Len(attempts) = 1 /\ FailedPermanent(attempts[1])
  /\ ~ attempts[1].error.isError
  /\ calls = 1 /\ delays = << >> /\ rpc = "threw"

\* C4 (attempt cap): the operation is never invoked more than maxRetries times
\* and the retry counter stays within 0 .. maxRetries.
C4_AttemptCap ==
  /\ calls <= maxRetries
  /\ retries \in 0 .. maxRetries

C4_Witness ==
  /\ calls = maxRetries /\ retries = maxRetries /\ rpc = "threw"
  /\ entry = "analyzeXrayImage"

\* C5 (normalization after exhaustion): when every model call of an
\* analyzeXrayImage call failed with a Transient error until the retries were
\* exhausted, the error analyzeXrayImage throws carries the message of the
\* transient branch of its catch (line 116).
C5_ExhaustionNormalized ==
  (entry = "analyzeXrayImage" /\ AllTransient(maxRetries) /\ apc = "threw") =>
    result.error.message =
      "The AI service is temporarily unavailable. We tried multiple times but the service is experiencing high load. Please try again in a few minutes."

\* C6 (delay bound): the delay waited after the transient failure of attempt i
\* (0-indexed) lies in [initialDelay * 2^i, initialDelay * 2^i + 1000), and
\* there is one delay per transient failure.
C6_DelayBound ==
  /\ \A i \in 1 .. Len(delays) :
       /\ delays[i] >= initialDelay * (2 ^ (i - 1))
       /\ delays[i] < initialDelay * (2 ^ (i - 1)) + 1000
  /\ Len(delays) = Cardinality({i \in 1 .. Len(attempts) : FailedTransient(attempts[i])})

C6_Witness ==
  /\ initialDelay = 2000 /\ Len(delays) = 3
  /\ delays[1] = 2000 /\ delays[3] = 8999

\* C7 (no delay without a remaining attempt): the retrier is suspended in a
\* delay only when another attempt remains, so an execution has at most
\* maxRetries - 1 delays.
C7_DelayOnlyBeforeRetry ==
  /\ Len(delays) <= maxRetries - 1
  /\ rpc = "delay" => retries + 1 < maxRetries

\* C8 (fetch before model): in image-grounded mode a response with a
\* non-success status makes analyzeXrayImage throw 'Failed to fetch image' with
\* no encoding and no model invocation; a model invocation is always preceded
\* by a successful fetch and a successful encoding.
C8_FetchBeforeModel ==
  (entry = "analyzeXrayImage" /\ imageUrl # "") =>
    /\ (response # NoResponse /\ ~ response.ok) =>
         /\ apc = "threw"
         /\ result.kind = "throw"
         /\ result.error.message = "Failed to fetch image"
         /\ calls = 0 /\ sent = << >>
         /\ \A i \in 1 .. Len(events) : events[i] \notin {"encode", "encode_ok", "model"}
    /\ \A m \in 1 .. Len(events) :
         events[m] = "model" =>
           \E f, e \in 1 .. (m - 1) :
             f < e /\ events[f] = "fetch_ok" /\ events[e] = "encode_ok"

C8_Witness ==
  /\ entry = "analyzeXrayImage" /\ imageUrl # ""
  /\ response.status = 404 /\ apc = "threw"
  /\ result.error.message = "Failed to fetch image"

\* C9 (mode selection): with no image source and a non-English language the
\* model receives exactly one text part built from the prompt and the language,
\* nothing is fetched or encoded, and every model invocation is an invocation
\* made by the retrier; with an image source the request has exactly two
\* parts, the instruction text and then the encoded image.
C9_ModeSelection ==
  entry = "analyzeXrayImage" =>
    /\ Len(sent) = calls
    /\ (imageUrl = "" /\ language # "english") =>
         /\ events \in Seq({"model"})
         /\ response = NoResponse /\ imageBlob = NoBlob /\ base64Image = << >>
         /\ apc # "start" => rpc # "idle"
         /\ \A i \in 1 .. Len(sent) :
              /\ Len(sent[i]) = 1
              /\ ~ sent[i][1].inline
              /\ sent[i][1].text =
                   << "You are a medical professional. ", prompt,
                      " Provide the response in ", language, " language." >>
    /\ imageUrl # "" =>
         \A i \in 1 .. Len(sent) :
           /\ Len(sent[i]) = 2
           /\ ~ sent[i][1].inline /\ sent[i][1].text # << >>
           /\ sent[i][2].inline /\ sent[i][2].data = base64Image
           /\ base64Image # << >>

C9_Witness ==
  /\ entry = "analyzeXrayImage" /\ imageUrl = "" /\ language = "marathi"
  /\ Len(sent) = 2 /\ apc = "returned"

\* C10 (language directive): in image-grounded mode the instruction text ends
\* with the Hindi sentence for 'hindi', the Marathi sentence for 'marathi' and
\* the empty directive for 'english' and every other language, and the image
\* part carries the content type of the fetched resource.
C10_Directive ==
  \A i \in 1 .. Len(sent) :
    Len(sent[i]) = 2 =>
      /\ Len(sent[i][1].text) = 4
      /\ sent[i][1].text[2] = prompt
      /\ sent[i][1].text[4] =
           (CASE language = "hindi" -> "Provide the analysis in Hindi language."
              [] language = "marathi" -> "Provide the analysis in Marathi language."
              [] OTHER -> "")
      /\ sent[i][2].mimeType = response.contentType

C10_Witness ==
  /\ entry = "analyzeXrayImage" /\ language = "hindi"
  /\ Len(sent) = 1 /\ Len(sent[1]) = 2
  /\ sent[1][1].text[4] = "Provide the analysis in Hindi language."
  /\ sent[1][2].mimeType = "image/jpeg"

\* C11 (connectivity probe): a call of checkApiConnection hands exactly one
\* request to the model, never through the retrier and without any delay, also
\* when the request fails with a Transient error; whatever the request throws,
\* the call throws the 'Failed to connect to the Gemini API' error of line 17,
\* not the value caught.
C11_ProbeOnce ==
  entry = "checkApiConnection" =>
    /\ Len(sent) = (IF ppc = "start" THEN 0 ELSE 1)
    /\ \A i \in 1 .. Len(sent) : sent[i] = ProbeParts
    /\ calls = 0 /\ delays = << >> /\ rpc = "idle"
    /\ \A j \in 1 .. Len(answers) :
         answers[j].kind = "throws" =>
           /\ ppc = "threw"
           /\ pResult.kind = "throw"
           /\ pResult.error = Err("Failed to connect to the Gemini API", "L17")
           /\ pResult.error # answers[j].error

C11_Witness ==
  /\ entry = "checkApiConnection" /\ ppc = "threw"
  /\ Len(answers) = 1 /\ answers[1].kind = "throws"
  /\ answers[1].error = Err("[503 Service Unavailable]", "remote")
  /\ Len(sent) = 1

\* C12 (default-policy scenario): under maxRetries = 5 and initialDelay = 2000,
\* when four invocations in a row fail with a message containing '503' and the
\* fifth succeeds, the result is the fifth invocation's value, exactly four
\* delays were waited, and no delay is shorter than the one before it.
FailedWith503(o) ==
  o.kind = "throw" /\ o.error.isError /\ Includes(o.error.message, "503")

C12_FourFailuresThenSuccess ==
  ( /\ entry = "analyzeXrayImage"
    /\ maxRetries = 5 /\ initialDelay = 2000
    /\ Len(attempts) >= 5
    /\ \A i \in 1 .. 4 : FailedWith503(attempts[i])
    /\ Succeeded(attempts[5]) ) =>
      /\ apc = "returned"
      /\ result = Return(attempts[5].value)
      /\ calls = 5 /\ Len(delays) = 4
      /\ \A i \in 1 .. 3 : delays[i] <= delays[i + 1]

C12_Witness ==
  /\ entry = "analyzeXrayImage" /\ Len(attempts) = 5
  /\ \A i \in 1 .. 4 : FailedWith503(attempts[i])
  /\ Succeeded(attempts[5]) /\ result = Return("report A")
  /\ delays = << 2999, 4000, 8999, 16000 >>

\* C13 (empty response): in either mode, when the SDK answers a request with no
\* response object, that request is the last one, no delay follows it, and
\* analyzeXrayImage throws 'No response from Gemini API'.
C13_EmptyResponse ==
  entry = "analyzeXrayImage" =>
    \A j \in 1 .. Len(answers) :
      answers[j].kind = "no_response" =>
        /\ j = Len(answers) /\ Len(sent) = j /\ calls = j
        /\ Len(delays) = j - 1
        /\ rpc = "threw" /\ apc = "threw"
        /\ result.kind = "throw"
        /\ result.error.isError
        /\ result.error.message = "No response from Gemini API"

C13_Witness ==
  /\ entry = "analyzeXrayImage" /\ imageUrl = "" /\ language = "hindi"
  /\ Len(answers) = 2 /\ answers[2].kind = "no_response"
  /\ Len(delays) = 1 /\ apc = "threw"

\* C14 (normalization): analyzeXrayImage has thrown exactly when a value reached
\* its catch, and it never returns then; whatever retryWithBackoff throws
\* reaches the catch; a caught Error whose message contains neither '503' nor
\* 'overloaded' is thrown again as an Error with the same message, and a caught
\* value that is not an Error as an Error with the generic message.
C14_Normalization ==
  entry = "analyzeXrayImage" =>
    /\ (caught # Null) <=> (apc = "threw")
    /\ rpc = "threw" => caught = rResult.error
    /\ (response # NoResponse /\ ~ response.ok) => caught # Null
    /\ result.kind = "return" => (caught = Null /\ apc = "returned" /\ result = rResult)
    /\ caught # Null =>
         /\ result.kind = "throw" /\ result.error.isError
         /\ ( /\ caught.isError
              /\ ~ Includes(caught.message, "503")
              /\ ~ Includes(caught.message, "overloaded") ) =>
                result.error.message = caught.message
         /\ ~ caught.isError =>
              result.error.message =
                "An unexpected error occurred while analyzing the image"

C14_Witness ==
  /\ entry = "analyzeXrayImage" /\ apc = "threw"
  /\ caught = Err("[400 Bad Request] API key not valid", "remote")
  /\ result.error.message = "[400 Bad Request] API key not valid"

\* C16 (no image, English): a call without image source in English does not
\* take the text-only path: it hands the empty URL to fetch, and every request
\* it sends to the model has two parts.
C16_EnglishFallsThrough ==
  (entry = "analyzeXrayImage" /\ imageUrl = "" /\ language = "english") =>
    /\ apc # "start" => fetched = << "" >>
    /\ rpc # "idle" => (response.ok /\ base64Image # << >>)
    /\ \A i \in 1 .. Len(sent) : Len(sent[i]) = 2 /\ sent[i][2].inline

C16_Witness ==
  /\ entry = "analyzeXrayImage" /\ imageUrl = "" /\ language = "english"
  /\ fetched = << "" >> /\ Len(sent) = 1 /\ Len(sent[1]) = 2

\* C15 (termination): every step of a running retryWithBackoff decreases a
\* natural-number measure of the attempts left, so no state allows retrying
\* forever; when every await eventually settles the call eventually settles,
\* and it settles with the value of the last invocation, with the Permanent
\* error of the last invocation, or with the 'Maximum retries reached' error.
Running == rpc \in {"while", "operation", "delay"}
RetryMeasure ==
  IF Running
    THEN 3 * (maxRetries - retries)
           + (CASE rpc = "while" -> 3 [] rpc = "operation" -> 2 [] rpc = "delay" -> 1)
    ELSE 0

C15_Termination ==
  /\ [][Running => (RetryMeasure' < RetryMeasure /\ RetryMeasure' >= 0)]_vars
  /\ Running ~> Settled
  /\ [](Settled =>
         \/ /\ rResult.kind = "return" /\ attempts # << >>
            /\ rResult = Return(attempts[Len(attempts)].value)
         \/ /\ rResult.kind = "throw" /\ attempts # << >>
            /\ FailedPermanent(attempts[Len(attempts)])
            /\ rResult = Throw(attempts[Len(attempts)].error)
         \/ /\ rResult.kind = "throw"
            /\ AllTransient(maxRetries) /\ Len(attempts) = maxRetries
            /\ rResult.error.site = "L48")

C15_Witness ==
  /\ entry = "retryWithBackoff" /\ maxRetries = 3
  /\ rpc = "threw" /\ Len(attempts) = 3 /\ retries = 3 /\ AllTransient(3)

\* C17 (no re-entry): at most one analyzeXrayImage call started by
\* handleAnalyze is in flight at any time.
C17_OneAnalyzeInFlight ==
  Cardinality({c \in inflight : c.handler = "handleAnalyze"}) <= 1

\* C18 (probe first): whenever the App starts an analyzeXrayImage call, from
\* handleAnalyze or from translateAnalysis, apiStatus is 'connected'.
C18_ConnectedBeforeCalls ==
  [][started' > started => apiStatus = "connected"]_vars

\* C19 (frame of translateAnalysis): no step of translateAnalysis changes
\* originalAnalysis; the switch to English shows originalAnalysis and starts no
\* call; a rejected translation leaves the displayed analysis and the language
\* as they were and resets isTranslating.
TranslateSteps ==
  {"translateAnalysis", "translateAnalysis_ignored", "translateAnalysis_english",
   "translateAnalysis_resolved", "translateAnalysis_rejected"}

C19_TranslateFrame ==
  [][ /\ last' \in TranslateSteps => originalAnalysis' = originalAnalysis
      /\ last' = "translateAnalysis_english" =>
           /\ analysis' = originalAnalysis /\ language' = "english"
           /\ inflight' = inflight /\ started' = started
      /\ last' = "translateAnalysis_rejected" =>
           /\ analysis' = analysis /\ language' = language
           /\ isTranslating' = FALSE
           /\ Cardinality(inflight') = Cardinality(inflight) - 1 ]_vars

C19_Witness ==
  /\ last = "translateAnalysis_rejected"
  /\ language = "hindi" /\ analysis = "translated report"
  /\ originalAnalysis = "report A"
  /\ ~ isTranslating /\ error # ""

\* C20 (label consistency): whenever no call is in flight, the language is
\* 'english' exactly when the displayed analysis is originalAnalysis.
C20_LabelConsistent ==
  inflight = { } => ((language = "english") <=> (analysis = originalAnalysis))

=============================================================================
